---- MODULE Spec2Model ----
(***************************************************************************)
(* Model of src/sub_translator.py: SubtitleTranslator.parse_srt,           *)
(* translate_text, save_progress, create_backup and translate_subtitles.   *)
(*                                                                         *)
(* A Python str is a sequence of one-character strings, so that the        *)
(* regular expression of parse_srt, str.join, str.split, str.strip and the *)
(* f-strings of save_progress are computed character by character.         *)
(***************************************************************************)
EXTENDS Integers, Sequences, FiniteSets, TLC

\* ------------------------------------------------------------------------
\* Characters and the str helpers used by the source
\* ------------------------------------------------------------------------

NL == "\n"

Digits == {"0", "1", "2", "3", "4", "5", "6", "7", "8", "9"}

\* characters removed by str.strip() (lines 32, 131)
Whitespace == {" ", "\n", "\t", "\r"}

\* the separator of lines 123 and 127: "\n---\n"
Delimiter == <<"\n", "-", "-", "-", "\n">>

\* the literal " --> " of the pattern (line 23) and of the f-string (line 73)
Arrow == <<" ", "-", "-", ">", " ">>

\* s[p:] starts with lit (1-based p)
StartsWithAt(s, p, lit) ==
    /\ p + Len(lit) - 1 <= Len(s)
    /\ SubSeq(s, p, p + Len(lit) - 1) = lit

\* str.strip(): drop leading and trailing whitespace
RECURSIVE LStrip(_)
LStrip(s) ==
    IF s # <<>> /\ Head(s) \in Whitespace THEN LStrip(Tail(s)) ELSE s

RECURSIVE RStrip(_)
RStrip(s) ==
    IF s # <<>> /\ s[Len(s)] \in Whitespace
    THEN RStrip(SubSeq(s, 1, Len(s) - 1))
    ELSE s

Strip(s) == RStrip(LStrip(s))

\* sep.join(parts)
RECURSIVE Join(_, _)
Join(parts, sep) ==
    IF parts = <<>> THEN <<>>
    ELSE IF Len(parts) = 1 THEN parts[1]
    ELSE parts[1] \o sep \o Join(Tail(parts), sep)

\* str.split(sep): scan left to right for non-overlapping occurrences of sep;
\* cur is the 1-based start of the part being collected
RECURSIVE SplitFrom(_, _, _, _)
SplitFrom(s, sep, cur, p) ==
    IF p > Len(s) THEN <<SubSeq(s, cur, Len(s))>>
    ELSE IF StartsWithAt(s, p, sep)
         THEN <<SubSeq(s, cur, p - 1)>>
              \o SplitFrom(s, sep, p + Len(sep), p + Len(sep))
         ELSE SplitFrom(s, sep, cur, p + 1)

Split(s, sep) == SplitFrom(s, sep, 1, 1)

\* ------------------------------------------------------------------------
\* parse_srt (lines 21-35)
\*   (\d+)\n(\d{2}:\d{2}:\d{2},\d{3}) --> (\d{2}:\d{2}:\d{2},\d{3})\n
\*   ((?:.*?\n)*?)(?:\n|$)           with re.MULTILINE
\* ------------------------------------------------------------------------

\* (\d+) is greedy: the end (exclusive) of the run of digits starting at p
RECURSIVE DigitRunEnd(_, _)
DigitRunEnd(s, p) ==
    IF p <= Len(s) /\ s[p] \in Digits THEN DigitRunEnd(s, p + 1) ELSE p

\* \d{2}:\d{2}:\d{2},\d{3} at position p (12 characters)
TimestampLen == 12

MatchTimestamp(s, p) ==
    /\ p + TimestampLen - 1 <= Len(s)
    /\ s[p] \in Digits /\ s[p + 1] \in Digits /\ s[p + 2] = ":"
    /\ s[p + 3] \in Digits /\ s[p + 4] \in Digits /\ s[p + 5] = ":"
    /\ s[p + 6] \in Digits /\ s[p + 7] \in Digits /\ s[p + 8] = ","
    /\ s[p + 9] \in Digits /\ s[p + 10] \in Digits /\ s[p + 11] \in Digits

\* position of the first "\n" at or after p, 0 when the rest has none
RECURSIVE NextNewline(_, _)
NextNewline(s, p) ==
    IF p > Len(s) THEN 0
    ELSE IF s[p] = NL THEN p
    ELSE NextNewline(s, p + 1)

\* ((?:.*?\n)*?)(?:\n|$) from the line start r.  The repetition is lazy, so
\* the terminator (?:\n|$) is tried before each further iteration: "\n"
\* matches an empty line, "$" (MULTILINE) matches at the end of the string or
\* before a "\n".  Otherwise one more ".*?\n" is taken: "." does not match
\* "\n", so an iteration is exactly one line with its newline, and it fails
\* when the line has no newline.  Result: the position where the terminator
\* matched, or 0 when the pattern fails.
RECURSIVE TextEnd(_, _)
TextEnd(s, r) ==
    IF r = Len(s) + 1 THEN r
    ELSE IF s[r] = NL THEN r
    ELSE LET e == NextNewline(s, r)
         IN  IF e = 0 THEN 0 ELSE TextEnd(s, e + 1)

NoMatch == [ok |-> FALSE, stop |-> 0, index |-> <<>>, start_time |-> <<>>,
            end_time |-> <<>>, group4 |-> <<>>]

\* the pattern anchored at position p: the groups and the end of the match
MatchAt(s, p) ==
    LET q  == DigitRunEnd(s, p)                     \* (\d+), then \n at q
        t1 == q + 1                                 \* first timestamp
        a  == t1 + TimestampLen                     \* " --> "
        t2 == a + Len(Arrow)                        \* second timestamp
        n2 == t2 + TimestampLen                     \* \n
        g4 == n2 + 1                                \* group 4
    IN  IF /\ q > p
           /\ q <= Len(s) /\ s[q] = NL
           /\ MatchTimestamp(s, t1)
           /\ StartsWithAt(s, a, Arrow)
           /\ MatchTimestamp(s, t2)
           /\ n2 <= Len(s) /\ s[n2] = NL
           /\ TextEnd(s, g4) # 0
        THEN LET r == TextEnd(s, g4)
             IN  [ok |-> TRUE,
                  stop |-> IF r <= Len(s) THEN r + 1 ELSE r,
                  index |-> SubSeq(s, p, q - 1),
                  start_time |-> SubSeq(s, t1, t1 + TimestampLen - 1),
                  end_time |-> SubSeq(s, t2, t2 + TimestampLen - 1),
                  group4 |-> SubSeq(s, g4, r - 1)]
        ELSE NoMatch

\* FindAll with 'text': match.group(4), without strip()
RECURSIVE FindAll_NoStrip(_, _)
FindAll_NoStrip(s, pos) ==
    IF pos > Len(s) THEN <<>>
    ELSE LET m == MatchAt(s, pos)
         IN  IF m.ok
             THEN <<[index |-> m.index, start_time |-> m.start_time,
                     end_time |-> m.end_time, text |-> m.group4]>>
                  \o FindAll_NoStrip(s, m.stop)
             ELSE FindAll_NoStrip(s, pos + 1)

\* re.finditer: leftmost match at or after pos, then on from its end
RECURSIVE FindAll(_, _)
FindAll(s, pos) ==
    IF pos > Len(s) THEN <<>>
    ELSE LET m == MatchAt(s, pos)
         IN  IF m.ok
             THEN <<[index |-> m.index, start_time |-> m.start_time,
                     end_time |-> m.end_time, text |-> Strip(m.group4)]>>
                  \o FindAll(s, m.stop)
             ELSE FindAll(s, pos + 1)

parse_srt(content) == FindAll(content, 1)

\* ------------------------------------------------------------------------
\* save_progress (lines 68-74): the text written for a list of records
\* ------------------------------------------------------------------------

\* SerializeOne without the blank line after the text
SerializeOne_NoBlankLine(sub) ==
    sub.index \o <<NL>> \o sub.start_time \o Arrow \o sub.end_time \o <<NL>>
    \o sub.text \o <<NL>>

SerializeOne(sub) ==
    sub.index \o <<NL>> \o sub.start_time \o Arrow \o sub.end_time \o <<NL>>
    \o sub.text \o <<NL, NL>>

RECURSIVE Serialize(_)
Serialize(subs) ==
    IF subs = <<>> THEN <<>>
    ELSE SerializeOne(Head(subs)) \o Serialize(Tail(subs))

\* ------------------------------------------------------------------------
\* Program constants
\* ------------------------------------------------------------------------

\* self.max_retries (line 18)
max_retries == 3

\* batch_size (line 105)
batch_size == 5

\* ------------------------------------------------------------------------
\* Bounds and the inputs of a run
\* ------------------------------------------------------------------------

\* largest number of subtitle blocks in an input file of a run
MaxRecords == 11

\* largest number of subtitle blocks in an input of parse_srt alone
MaxBlocks == 3

Min(a, b) == IF a < b THEN a ELSE b

DigitChar(d) == <<"0", "1", "2", "3", "4", "5", "6", "7", "8", "9">>[d + 1]

\* decimal numeral of n (0 <= n <= 99), no leading zero
Numeral(n) ==
    IF n < 10 THEN <<DigitChar(n)>>
    ELSE <<DigitChar(n \div 10), DigitChar(n % 10)>>

\* the timestamp 00:00:nn,000
Stamp(n) ==
    <<"0", "0", ":", "0", "0", ":", DigitChar((n \div 10) % 10),
      DigitChar(n % 10), ",", "0", "0", "0">>

Letters == <<"a", "b", "c">>

\* text of the n-th block of an input file of a run: one line, one letter
BlockText(n) == <<Letters[((n - 1) % Len(Letters)) + 1]>>

\* the n-th subtitle block of a file, as the record it stands for
SourceBlock(n, text) ==
    [index |-> Numeral(n), start_time |-> Stamp(n), end_time |-> Stamp(n + 1),
     text |-> text]

\* how the last block of a file ends: with a blank line, with the newline of
\* its last text line, or with its last text line cut by the end of input
Endings == {"blank", "newline", "eof"}

EndingText(ending) ==
    IF ending = "blank" THEN <<NL, NL>>
    ELSE IF ending = "newline" THEN <<NL>>
    ELSE <<>>

\* the SRT text of a sequence of blocks: index line, time-range line, text
\* lines, a blank line between blocks, the given ending after the last one
RECURSIVE Render(_, _)
Render(blocks, ending) ==
    IF blocks = <<>> THEN <<>>
    ELSE LET b == Head(blocks)
         IN  b.index \o <<NL>> \o b.start_time \o Arrow \o b.end_time
             \o <<NL>> \o b.text
             \o (IF Len(blocks) = 1 THEN EndingText(ending) ELSE <<NL, NL>>)
             \o Render(Tail(blocks), ending)

\* the blocks of the input files of a run: n blocks of one text line each
RunBlocks(n) == [k \in 1..n |-> SourceBlock(k, BlockText(k))]

\* two blocks, the first with the three text lines "a", "---", "b"
BlocksWithDashLine ==
    <<SourceBlock(1, <<"a">> \o Delimiter \o <<"b">>), SourceBlock(2, <<"c">>)>>

RunInputs == {RunBlocks(n) : n \in 0..MaxRecords} \cup {BlocksWithDashLine}

\* texts of the blocks given to parse_srt alone: "a", "ab", the two lines
\* "a", "b", "Hello", "a" and "b" with a blank line between them, " a", "a "
ParseTexts ==
    {<<"a">>, <<"a", "b">>, <<"a", NL, "b">>, <<"H", "e", "l", "l", "o">>,
     <<"a", NL, NL, "b">>, <<" ", "a">>, <<"a", " ">>}

\* the inputs of parse_srt alone: up to MaxBlocks blocks, any of the texts
ParseInputs ==
    UNION {{[k \in 1..n |-> SourceBlock(k, t[k])] :
                t \in [1..n -> ParseTexts]} : n \in 0..MaxBlocks}

\* an optional str of main: None, or a str
NoKey == [given |-> FALSE, value |-> <<>>]

Key(value) == [given |-> TRUE, value |-> value]

\* what --api-key and CLAUDE_API_KEY can be: not given, empty, a key
KeyOptions == {NoKey, Key(<<>>), Key(<<"k">>)}

\* line 169: args.api_key is truthy (not None and not "")
KeySupplied(key) == key.given /\ key.value # <<>>

\* a file of the file system: absent, or present with its content
Absent == [exists |-> FALSE, data |-> <<>>]

Present(data) == [exists |-> TRUE, data |-> data]

\* what the output path may hold before the run
PriorOutput == Present(Render(<<SourceBlock(9, <<"o">>)>>, "blank"))

\* what a progress file left by an earlier run may hold
StaleProgress == Present(Render(<<SourceBlock(8, <<"p">>)>>, "blank"))

\* ------------------------------------------------------------------------
\* The remote service (requests.post of line 52 and what lines 53-54 make
\* of its answer)
\* ------------------------------------------------------------------------

\* the exceptions line 55 can catch:
\*   ConnectionError  requests.post got no response (network error)
\*   HTTPError        raise_for_status() on a non-2xx status
\*   JSONDecodeError  response.json() on a body that is not JSON, as raised
\*                    by requests >= 2.27 (a RequestException)
\*   ValueError       the same, as raised by older requests
\*   KeyError         the JSON has no content[0].text
FailureKinds ==
    {"ConnectionError", "HTTPError", "JSONDecodeError", "ValueError",
     "KeyError"}

\* hasattr(e, 'response') of lines 58 and 64: every RequestException has it
HasResponseAttr(kind) ==
    kind \in {"ConnectionError", "HTTPError", "JSONDecodeError"}

\* e.response is None unless the exception was built from a response
ResponseIsNone(kind) == kind \in {"ConnectionError", "JSONDecodeError"}

\* lines 58-59 and 64-65: e.response.content on None raises AttributeError
\* inside the except clause, which nothing in translate_text catches
HandlerRaises(kind) == HasResponseAttr(kind) /\ ResponseIsNone(kind)

\* what the service may answer for a part: some text that is not the input
Translated(text) == <<"x">> \o text

\* the styles in which the service lays out its answer
Styles == {"plain", "padded"}

Padded(style, part) ==
    IF style = "padded" THEN <<" ">> \o part \o <<" ", NL>> ELSE part

\* an answer of count parts for the batch: the first ones translate the
\* entries in order, any further one is commentary
AnswerParts(batch, count, style) ==
    [k \in 1..count |->
        Padded(style, IF k <= Len(batch) THEN Translated(batch[k].text)
                      ELSE <<"z">>)]

\* the answers the service may give: as many parts as entries, one fewer
\* (entries merged or dropped), one more (commentary added)
Answers(batch) ==
    {Join(AnswerParts(batch, count, style), Delimiter) :
        count \in {c \in {Len(batch) - 1, Len(batch), Len(batch) + 1} : c >= 1},
        style \in Styles}

\* ------------------------------------------------------------------------
\* State of one run of translate_subtitles
\* ------------------------------------------------------------------------

VARIABLES
    pc,                    \* position in translate_subtitles / translate_text
    input_file,            \* content of the input file
    output_file,           \* the file at output_file
    progress_file,         \* the file at f"{output_file}.progress"
    backup_file,           \* the file at backup_path
    subtitles,             \* line 100
    translated_subtitles,  \* line 106
    i,                     \* loop variable of line 112
    combined_text,         \* line 123, the argument text of translate_text
    attempt,               \* loop variable of line 50
    translated_text,       \* line 124
    translated_parts,      \* line 127
    j,                     \* number of parts taken by the loop of line 129
    exc,                   \* exception in flight or propagated to the caller
    interrupted,           \* a KeyboardInterrupt has been delivered
    prior_output,          \* history: output_file when the run started
    output_opened,         \* history: line 153 has opened the output file
    acc_before,            \* history: len(translated_subtitles) when the
                           \* current value of i was assigned
    source_blocks,         \* history: the blocks the input was written from
    api_key,               \* args.api_key of main (line 167)
    reparsed,              \* parse_srt of the text save_progress wrote
    call_log,              \* history: the slice of subtitles given to each
                           \* call of translate_text, in call order
    calls_returned,        \* history: calls of translate_text that returned
    requests_sent,         \* history: requests.post calls of the current
                           \* call of translate_text
    failures,              \* history: its failed attempts
    delays,                \* history: its time.sleep(self.retry_delay) calls
    total_requests,        \* history: requests.post calls of the run
    interrupted_at,        \* history: where the KeyboardInterrupt arrived
    progress_opened        \* history: the run has opened the progress file

vars == <<pc, input_file, output_file, progress_file, backup_file, subtitles,
          translated_subtitles, i, combined_text, attempt, translated_text,
          translated_parts, j, exc, interrupted, prior_output, output_opened,
          acc_before, source_blocks, api_key, reparsed, call_log,
          calls_returned, requests_sent, failures, delays, total_requests,
          interrupted_at,
          progress_opened>>

counters ==
    <<call_log, calls_returned, requests_sent, failures, delays,
      total_requests>>

files == <<input_file, output_file, progress_file, backup_file,
           source_blocks>>

locals == <<subtitles, translated_subtitles, i, combined_text, attempt,
            translated_text, translated_parts, j>>

total_subtitles == Len(subtitles)

\* batch = subtitles[i:i + batch_size] (line 113)
batch == SubSeq(subtitles, i + 1, Min(i + batch_size, total_subtitles))

\* lines 114-115
current_batch == (i \div batch_size) + 1

total_batches == (total_subtitles + batch_size - 1) \div batch_size

\* positions inside the try block of lines 111-139
TryBlock ==
    {"loop_head", "throttle", "combine", "request", "in_flight",
     "retry_sleep", "split", "assign", "save_open", "save_write"}

\* positions where the run has ended
Terminal == {"completed", "interrupted", "raised"}

Init ==
    /\ pc = "main"
    /\ source_blocks \in RunInputs
    /\ input_file = Render(source_blocks, "blank")
    /\ output_file \in {Absent, PriorOutput}
    /\ progress_file \in {Absent, StaleProgress}
    /\ backup_file = Absent
    /\ subtitles = <<>>
    /\ translated_subtitles = <<>>
    /\ i = 0
    /\ combined_text = <<>>
    /\ attempt = 0
    /\ translated_text = <<>>
    /\ translated_parts = <<>>
    /\ j = 0
    /\ exc = "none"
    /\ interrupted = FALSE
    /\ prior_output = output_file
    /\ output_opened = FALSE
    /\ acc_before = 0
    /\ api_key = NoKey
    /\ reparsed = <<>>
    /\ call_log = <<>>
    /\ calls_returned = 0
    /\ requests_sent = 0
    /\ failures = 0
    /\ delays = 0
    /\ total_requests = 0
    /\ interrupted_at = "none"
    /\ progress_opened = FALSE

\* ------------------------------------------------------------------------
\* save_progress (lines 68-74) on a file: open(..., 'w') truncates, the
\* writes of lines 71-74 follow
\* ------------------------------------------------------------------------

Truncated == Present(<<>>)

Written(subs) == Present(Serialize(subs))

\* ------------------------------------------------------------------------
\* main (lines 159-173)
\* ------------------------------------------------------------------------

\* Main without the check of lines 169-170
Main_NoCheck ==
    /\ pc = "main"
    /\ \E flag \in KeyOptions, env \in KeyOptions :
          api_key' = IF flag.given THEN flag ELSE env
    /\ pc' = "start"
    /\ UNCHANGED <<files, locals, exc, interrupted, prior_output, reparsed,
                   counters, interrupted_at, progress_opened, output_opened,
                   acc_before>>

\* lines 160-172: --api-key defaults to the environment variable (line 164);
\* without a key ValueError leaves main, with one translate_subtitles is
\* called
Main ==
    /\ pc = "main"
    /\ \E flag \in KeyOptions, env \in KeyOptions :
          api_key' = IF flag.given THEN flag ELSE env
    /\ IF KeySupplied(api_key')
       THEN pc' = "start" /\ UNCHANGED exc
       ELSE pc' = "raised" /\ exc' = "ValueError"
    /\ UNCHANGED <<files, locals, interrupted, prior_output, reparsed,
                   counters, interrupted_at, progress_opened, output_opened,
                   acc_before>>

\* ------------------------------------------------------------------------
\* translate_subtitles (lines 86-157), before the loop
\* ------------------------------------------------------------------------

\* Start without the backup of lines 91-93
Start_NoBackup ==
    /\ pc = "start"
    /\ pc' = "read_input"
    /\ UNCHANGED <<files, locals, exc, interrupted, prior_output, api_key,
                   reparsed, counters, interrupted_at, progress_opened,
                   output_opened, acc_before>>

\* lines 88-92: os.path.exists(output_file) decides whether to back up
Start ==
    /\ pc = "start"
    /\ pc' = IF output_file.exists THEN "backup_open" ELSE "read_input"
    /\ UNCHANGED <<files, locals, exc, interrupted, prior_output, api_key,
                   reparsed, counters, interrupted_at, progress_opened,
                   output_opened, acc_before>>

\* create_backup, lines 78-82: the file exists, open(backup_path, 'w')
CreateBackupOpen ==
    /\ pc = "backup_open"
    /\ backup_file' = IF output_file.exists THEN Truncated ELSE backup_file
    /\ pc' = "backup_write"
    /\ UNCHANGED <<input_file, source_blocks, output_file, progress_file,
                   locals, exc, interrupted, prior_output, api_key, reparsed,
                   counters, interrupted_at, progress_opened, output_opened,
                   acc_before>>

\* create_backup, lines 83-84, and line 93: dst.write(src.read())
CreateBackupWrite ==
    /\ pc = "backup_write"
    /\ backup_file' = IF output_file.exists THEN Present(output_file.data)
                      ELSE backup_file
    /\ pc' = "read_input"
    /\ UNCHANGED <<input_file, source_blocks, output_file, progress_file,
                   locals, exc, interrupted, prior_output, api_key, reparsed,
                   counters, interrupted_at, progress_opened, output_opened,
                   acc_before>>

\* lines 96-109: read the input, parse it, start with an empty list
ReadAndParse ==
    /\ pc = "read_input"
    /\ subtitles' = parse_srt(input_file)
    /\ translated_subtitles' = <<>>
    /\ i' = 0
    /\ acc_before' = 0
    /\ pc' = "loop_head"
    /\ UNCHANGED <<files, combined_text, attempt, translated_text,
                   translated_parts, j, exc, interrupted, prior_output,
                   api_key, reparsed, counters, interrupted_at,
                   progress_opened, output_opened>>

\* ------------------------------------------------------------------------
\* the loop of lines 112-139
\* ------------------------------------------------------------------------

\* LoopHead that takes full batches only
LoopHead_FullBatchesOnly ==
    /\ pc = "loop_head"
    /\ pc' = IF i + batch_size <= total_subtitles
             THEN (IF i > 0 THEN "throttle" ELSE "combine")
             ELSE "final_open"
    /\ UNCHANGED <<files, locals, exc, interrupted, prior_output, api_key,
                   reparsed, counters, interrupted_at, progress_opened,
                   output_opened, acc_before>>

\* lines 112-119: another batch, or the loop is over
LoopHead ==
    /\ pc = "loop_head"
    /\ pc' = IF i < total_subtitles
             THEN (IF i > 0 THEN "throttle" ELSE "combine")
             ELSE "final_open"
    /\ UNCHANGED <<files, locals, exc, interrupted, prior_output, api_key,
                   reparsed, counters, interrupted_at, progress_opened,
                   output_opened, acc_before>>

\* line 120: time.sleep(1) before every batch but the first
Throttle ==
    /\ pc = "throttle"
    /\ pc' = "combine"
    /\ UNCHANGED <<files, locals, exc, interrupted, prior_output, api_key,
                   reparsed, counters, interrupted_at, progress_opened,
                   output_opened, acc_before>>

\* line 123 and the entry of translate_text (lines 41-50)
Combine ==
    /\ pc = "combine"
    /\ combined_text' = Join([k \in 1..Len(batch) |-> batch[k].text], Delimiter)
    /\ attempt' = 0
    /\ call_log' =
           Append(call_log, [first |-> i + 1,
                             last |-> Min(i + batch_size, total_subtitles)])
    /\ requests_sent' = 0
    /\ failures' = 0
    /\ delays' = 0
    /\ pc' = "request"
    /\ UNCHANGED <<files, subtitles, translated_subtitles, i, translated_text,
                   translated_parts, j, exc, interrupted, prior_output,
                   api_key, reparsed, calls_returned, total_requests,
                   interrupted_at, progress_opened, output_opened,
                   acc_before>>

\* line 52: requests.post sends the request
SendRequest ==
    /\ pc = "request"
    /\ requests_sent' = requests_sent + 1
    /\ total_requests' = total_requests + 1
    /\ pc' = "in_flight"
    /\ UNCHANGED <<files, locals, exc, interrupted, prior_output, api_key,
                   reparsed, call_log, calls_returned, failures, delays,
                   interrupted_at, progress_opened, output_opened,
                   acc_before>>

\* lines 52-54 and 124: a 2xx answer whose JSON has content[0].text
ReceiveAnswer ==
    /\ pc = "in_flight"
    /\ \E answer \in Answers(batch) : translated_text' = answer
    /\ calls_returned' = calls_returned + 1
    /\ pc' = "split"
    /\ UNCHANGED <<files, subtitles, translated_subtitles, i, combined_text,
                   attempt, translated_parts, j, exc, interrupted,
                   prior_output, api_key, reparsed, call_log, requests_sent,
                   failures, delays, total_requests, interrupted_at,
                   progress_opened, output_opened, acc_before>>

\* ReceiveFailure with 'attempt < self.max_retries' at line 56
ReceiveFailure_RetryAlways(kind) ==
    /\ pc = "in_flight"
    /\ failures' = failures + 1
    /\ IF HandlerRaises(kind)
       THEN /\ exc' = "AttributeError"
            /\ pc' = "exc_handler"
            /\ UNCHANGED <<translated_text, calls_returned>>
       ELSE IF attempt < max_retries
       THEN /\ pc' = "retry_sleep"
            /\ UNCHANGED <<exc, translated_text, calls_returned>>
       ELSE /\ translated_text' = combined_text
            /\ calls_returned' = calls_returned + 1
            /\ pc' = "split"
            /\ UNCHANGED exc
    /\ UNCHANGED <<files, subtitles, translated_subtitles, i, combined_text,
                   attempt, translated_parts, j, interrupted, prior_output,
                   api_key, reparsed, call_log, requests_sent, delays,
                   total_requests, interrupted_at, progress_opened,
                   output_opened, acc_before>>

\* lines 55-66: the attempt failed with an exception of the given kind
ReceiveFailure(kind) ==
    /\ pc = "in_flight"
    /\ failures' = failures + 1
    /\ IF HandlerRaises(kind)
       THEN \* line 59 or 65 raises out of translate_text, into line 146
            /\ exc' = "AttributeError"
            /\ pc' = "exc_handler"
            /\ UNCHANGED <<translated_text, calls_returned>>
       ELSE IF attempt < max_retries - 1
       THEN \* lines 57-61
            /\ pc' = "retry_sleep"
            /\ UNCHANGED <<exc, translated_text, calls_returned>>
       ELSE \* lines 63-66: return text
            /\ translated_text' = combined_text
            /\ calls_returned' = calls_returned + 1
            /\ pc' = "split"
            /\ UNCHANGED exc
    /\ UNCHANGED <<files, subtitles, translated_subtitles, i, combined_text,
                   attempt, translated_parts, j, interrupted, prior_output,
                   api_key, reparsed, call_log, requests_sent, delays,
                   total_requests, interrupted_at, progress_opened,
                   output_opened, acc_before>>

\* line 61, then the next iteration of line 50
RetrySleep ==
    /\ pc = "retry_sleep"
    /\ attempt' = attempt + 1
    /\ delays' = delays + 1
    /\ pc' = "request"
    /\ UNCHANGED <<files, subtitles, translated_subtitles, i, combined_text,
                   translated_text, translated_parts, j, exc, interrupted,
                   prior_output, api_key, reparsed, call_log, calls_returned,
                   requests_sent, failures, total_requests, interrupted_at,
                   progress_opened, output_opened, acc_before>>

\* line 127
SplitParts ==
    /\ pc = "split"
    /\ translated_parts' = Split(translated_text, Delimiter)
    /\ j' = 0
    /\ pc' = "assign"
    /\ UNCHANGED <<files, subtitles, translated_subtitles, i, combined_text,
                   attempt, translated_text, exc, interrupted, prior_output,
                   api_key, reparsed, counters, interrupted_at,
                   progress_opened, output_opened, acc_before>>

\* AssignPart with subtitle['text'] = part, without strip()
AssignPart_NoStrip ==
    /\ pc = "assign"
    /\ IF j < Len(translated_parts)
       THEN IF j + 1 <= Len(batch)
            THEN /\ translated_subtitles' =
                        Append(translated_subtitles,
                               [batch[j + 1] EXCEPT
                                   !.text = translated_parts[j + 1]])
                 /\ j' = j + 1
                 /\ UNCHANGED <<pc, exc>>
            ELSE /\ exc' = "IndexError"
                 /\ pc' = "exc_handler"
                 /\ UNCHANGED <<translated_subtitles, j>>
       ELSE /\ pc' = "save_open"
            /\ UNCHANGED <<translated_subtitles, j, exc>>
    /\ UNCHANGED <<files, subtitles, i, combined_text, attempt,
                   translated_text, translated_parts, interrupted,
                   prior_output, api_key, reparsed, counters, interrupted_at,
                   progress_opened, output_opened, acc_before>>

\* AssignPart written as zip(batch, translated_parts): parts past the batch
\* are ignored
AssignPart_Zip ==
    /\ pc = "assign"
    /\ IF j < Len(translated_parts) /\ j + 1 <= Len(batch)
       THEN /\ translated_subtitles' =
                   Append(translated_subtitles,
                          [batch[j + 1] EXCEPT
                              !.text = Strip(translated_parts[j + 1])])
            /\ j' = j + 1
            /\ UNCHANGED <<pc, exc>>
       ELSE /\ pc' = "save_open"
            /\ UNCHANGED <<translated_subtitles, j, exc>>
    /\ UNCHANGED <<files, subtitles, i, combined_text, attempt,
                   translated_text, translated_parts, interrupted,
                   prior_output, api_key, reparsed, counters, interrupted_at,
                   progress_opened, output_opened, acc_before>>

\* AssignPart that compares the lengths before its first iteration
AssignPart_CheckFirst ==
    /\ pc = "assign"
    /\ IF Len(translated_parts) > Len(batch)
       THEN /\ exc' = "IndexError"
            /\ pc' = "exc_handler"
            /\ UNCHANGED <<translated_subtitles, j>>
       ELSE IF j < Len(translated_parts)
       THEN /\ translated_subtitles' =
                   Append(translated_subtitles,
                          [batch[j + 1] EXCEPT
                              !.text = Strip(translated_parts[j + 1])])
            /\ j' = j + 1
            /\ UNCHANGED <<pc, exc>>
       ELSE /\ pc' = "save_open"
            /\ UNCHANGED <<translated_subtitles, j, exc>>
    /\ UNCHANGED <<files, subtitles, i, combined_text, attempt,
                   translated_text, translated_parts, interrupted,
                   prior_output, api_key, reparsed, counters, interrupted_at,
                   progress_opened, output_opened, acc_before>>

\* AssignPart that takes the first record of the batch for every part
AssignPart_FirstRecord ==
    /\ pc = "assign"
    /\ IF j < Len(translated_parts)
       THEN IF j + 1 <= Len(batch)
            THEN /\ translated_subtitles' =
                        Append(translated_subtitles,
                               [batch[1] EXCEPT
                                   !.text = Strip(translated_parts[j + 1])])
                 /\ j' = j + 1
                 /\ UNCHANGED <<pc, exc>>
            ELSE /\ exc' = "IndexError"
                 /\ pc' = "exc_handler"
                 /\ UNCHANGED <<translated_subtitles, j>>
       ELSE /\ pc' = "save_open"
            /\ UNCHANGED <<translated_subtitles, j, exc>>
    /\ UNCHANGED <<files, subtitles, i, combined_text, attempt,
                   translated_text, translated_parts, interrupted,
                   prior_output, api_key, reparsed, counters, interrupted_at,
                   progress_opened, output_opened, acc_before>>

\* lines 129-132, one iteration: batch[j] raises IndexError past the batch
AssignPart ==
    /\ pc = "assign"
    /\ IF j < Len(translated_parts)
       THEN IF j + 1 <= Len(batch)
            THEN /\ translated_subtitles' =
                        Append(translated_subtitles,
                               [batch[j + 1] EXCEPT
                                   !.text = Strip(translated_parts[j + 1])])
                 /\ j' = j + 1
                 /\ UNCHANGED <<pc, exc>>
            ELSE /\ exc' = "IndexError"
                 /\ pc' = "exc_handler"
                 /\ UNCHANGED <<translated_subtitles, j>>
       ELSE /\ pc' = "save_open"
            /\ UNCHANGED <<translated_subtitles, j, exc>>
    /\ UNCHANGED <<files, subtitles, i, combined_text, attempt,
                   translated_text, translated_parts, interrupted,
                   prior_output, api_key, reparsed, counters, interrupted_at,
                   progress_opened, output_opened, acc_before>>

\* line 135, save_progress line 70
SaveOpen ==
    /\ pc = "save_open"
    /\ progress_file' = Truncated
    /\ progress_opened' = TRUE
    /\ pc' = "save_write"
    /\ UNCHANGED <<input_file, source_blocks, output_file, backup_file,
                   locals, exc, interrupted, prior_output, api_key, reparsed,
                   counters, interrupted_at, output_opened, acc_before>>

\* SaveWrite that writes the records of the current batch only
SaveWrite_CurrentBatchOnly ==
    /\ pc = "save_write"
    /\ progress_file' =
           Written(SubSeq(translated_subtitles, acc_before + 1,
                          Len(translated_subtitles)))
    /\ i' = i + batch_size
    /\ acc_before' = Len(translated_subtitles)
    /\ pc' = "loop_head"
    /\ UNCHANGED <<input_file, source_blocks, output_file, backup_file,
                   subtitles, translated_subtitles, combined_text, attempt,
                   translated_text, translated_parts, j, exc, interrupted,
                   prior_output, api_key, reparsed, counters, interrupted_at,
                   progress_opened, output_opened>>

\* save_progress lines 71-74, lines 138-139, and the next value of i
SaveWrite ==
    /\ pc = "save_write"
    /\ progress_file' = Written(translated_subtitles)
    /\ i' = i + batch_size
    /\ acc_before' = Len(translated_subtitles)
    /\ pc' = "loop_head"
    /\ UNCHANGED <<input_file, source_blocks, output_file, backup_file,
                   subtitles, translated_subtitles, combined_text, attempt,
                   translated_text, translated_parts, j, exc, interrupted,
                   prior_output, api_key, reparsed, counters, interrupted_at,
                   progress_opened, output_opened>>

\* ------------------------------------------------------------------------
\* KeyboardInterrupt: raised wherever the run is; line 141 catches it only
\* inside the try block.  A run receives at most one interrupt.  A file that
\* was opened for writing and not yet written stays truncated.
\* ------------------------------------------------------------------------

\* Interrupt that no except clause catches
Interrupt_Uncaught ==
    /\ ~interrupted
    /\ pc \notin Terminal
    /\ interrupted' = TRUE
    /\ interrupted_at' = pc
    /\ pc' = "raised"
    /\ exc' = "KeyboardInterrupt"
    /\ UNCHANGED <<files, locals, prior_output, api_key, reparsed, counters,
                   progress_opened, output_opened, acc_before>>

Interrupt ==
    /\ ~interrupted
    /\ pc \notin Terminal
    /\ interrupted' = TRUE
    /\ interrupted_at' = pc
    /\ IF pc \in TryBlock
       THEN pc' = "kbd_handler" /\ UNCHANGED exc
       ELSE pc' = "raised" /\ exc' = "KeyboardInterrupt"
    /\ UNCHANGED <<files, locals, prior_output, api_key, reparsed, counters,
                   progress_opened, output_opened, acc_before>>

\* lines 142-143, save_progress line 70
HandleInterruptOpen ==
    /\ pc = "kbd_handler"
    /\ progress_file' = Truncated
    /\ progress_opened' = TRUE
    /\ pc' = "kbd_write"
    /\ UNCHANGED <<input_file, source_blocks, output_file, backup_file,
                   locals, exc, interrupted, prior_output, api_key, reparsed,
                   counters, interrupted_at, output_opened, acc_before>>

\* save_progress lines 71-74, lines 144-145: return
HandleInterruptWrite ==
    /\ pc = "kbd_write"
    /\ progress_file' = Written(translated_subtitles)
    /\ pc' = "interrupted"
    /\ UNCHANGED <<input_file, source_blocks, output_file, backup_file,
                   locals, exc, interrupted, prior_output, api_key, reparsed,
                   counters, interrupted_at, progress_opened, output_opened,
                   acc_before>>

\* lines 147-148, save_progress line 70
HandleErrorOpen ==
    /\ pc = "exc_handler"
    /\ progress_file' = Truncated
    /\ progress_opened' = TRUE
    /\ pc' = "exc_write"
    /\ UNCHANGED <<input_file, source_blocks, output_file, backup_file,
                   locals, exc, interrupted, prior_output, api_key, reparsed,
                   counters, interrupted_at, output_opened, acc_before>>

\* HandleErrorWrite saving only the records of the completed batches
HandleErrorWrite_CompletedOnly ==
    /\ pc = "exc_write"
    /\ progress_file' = Written(SubSeq(translated_subtitles, 1, acc_before))
    /\ pc' = "raised"
    /\ UNCHANGED <<input_file, source_blocks, output_file, backup_file,
                   locals, exc, interrupted, prior_output, api_key, reparsed,
                   counters, interrupted_at, progress_opened, output_opened,
                   acc_before>>

\* save_progress lines 71-74, lines 149-150: raise
HandleErrorWrite ==
    /\ pc = "exc_write"
    /\ progress_file' = Written(translated_subtitles)
    /\ pc' = "raised"
    /\ UNCHANGED <<input_file, source_blocks, output_file, backup_file,
                   locals, exc, interrupted, prior_output, api_key, reparsed,
                   counters, interrupted_at, progress_opened, output_opened,
                   acc_before>>

\* ------------------------------------------------------------------------
\* after the loop (lines 152-157)
\* ------------------------------------------------------------------------

\* line 153, save_progress line 70
FinalOpen ==
    /\ pc = "final_open"
    /\ output_file' = Truncated
    /\ output_opened' = TRUE
    /\ pc' = "final_write"
    /\ UNCHANGED <<input_file, source_blocks, progress_file, backup_file,
                   locals, exc, interrupted, prior_output, api_key, reparsed,
                   counters, interrupted_at, progress_opened, acc_before>>

\* save_progress lines 71-74
FinalWrite ==
    /\ pc = "final_write"
    /\ output_file' = Written(translated_subtitles)
    /\ pc' = "cleanup"
    /\ UNCHANGED <<input_file, source_blocks, progress_file, backup_file,
                   locals, exc, interrupted, prior_output, api_key, reparsed,
                   counters, interrupted_at, progress_opened, output_opened,
                   acc_before>>

\* lines 154-157
Cleanup ==
    /\ pc = "cleanup"
    /\ progress_file' = IF progress_file.exists THEN Absent ELSE progress_file
    /\ pc' = "completed"
    /\ UNCHANGED <<input_file, source_blocks, output_file, backup_file,
                   locals, exc, interrupted, prior_output, api_key, reparsed,
                   counters, interrupted_at, progress_opened, output_opened,
                   acc_before>>

Next ==
    \/ Main
    \/ Start
    \/ CreateBackupOpen
    \/ CreateBackupWrite
    \/ ReadAndParse
    \/ LoopHead
    \/ Throttle
    \/ Combine
    \/ SendRequest
    \/ ReceiveAnswer
    \/ \E kind \in FailureKinds : ReceiveFailure(kind)
    \/ RetrySleep
    \/ SplitParts
    \/ AssignPart
    \/ SaveOpen
    \/ SaveWrite
    \/ Interrupt
    \/ HandleInterruptOpen
    \/ HandleInterruptWrite
    \/ HandleErrorOpen
    \/ HandleErrorWrite
    \/ FinalOpen
    \/ FinalWrite
    \/ Cleanup

Spec == Init /\ [][Next]_vars

\* the run with every request, sleep and file operation returning: a run
\* that has not ended keeps taking steps (every position that is not
\* terminal has a step, so this is weak fairness of Next, written without
\* ENABLED)
SpecFair ==
    /\ Init
    /\ [][Next]_vars
    /\ []<>(pc \in Terminal) \/ []<><<TRUE>>_vars

\* ------------------------------------------------------------------------
\* parse_srt on its own: an input is drawn, parse_srt is applied to it
\* ------------------------------------------------------------------------

InitParse ==
    /\ pc = "parse_srt"
    /\ source_blocks \in ParseInputs
    /\ \E ending \in Endings : input_file = Render(source_blocks, ending)
    /\ output_file = Absent
    /\ progress_file = Absent
    /\ backup_file = Absent
    /\ subtitles = <<>>
    /\ translated_subtitles = <<>>
    /\ i = 0
    /\ combined_text = <<>>
    /\ attempt = 0
    /\ translated_text = <<>>
    /\ translated_parts = <<>>
    /\ j = 0
    /\ exc = "none"
    /\ interrupted = FALSE
    /\ prior_output = Absent
    /\ output_opened = FALSE
    /\ acc_before = 0
    /\ api_key = NoKey
    /\ reparsed = <<>>
    /\ call_log = <<>>
    /\ calls_returned = 0
    /\ requests_sent = 0
    /\ failures = 0
    /\ delays = 0
    /\ total_requests = 0
    /\ interrupted_at = "none"
    /\ progress_opened = FALSE

\* lines 21-35
ParseCall ==
    /\ pc = "parse_srt"
    /\ subtitles' = parse_srt(input_file)
    /\ pc' = "parsed"
    /\ UNCHANGED <<files, translated_subtitles, i, combined_text, attempt,
                   translated_text, translated_parts, j, exc, interrupted,
                   prior_output, api_key, reparsed, counters, interrupted_at,
                   progress_opened, output_opened, acc_before>>

\* save_progress (lines 68-74) on the parsed records
SaveParsed ==
    /\ pc = "parsed"
    /\ output_file' = Written(subtitles)
    /\ pc' = "saved"
    /\ UNCHANGED <<input_file, source_blocks, progress_file, backup_file,
                   locals, exc, interrupted, prior_output, output_opened,
                   acc_before, api_key, reparsed, counters, interrupted_at,
                   progress_opened>>

\* parse_srt (lines 21-35) on the text save_progress wrote
ReparseCall ==
    /\ pc = "saved"
    /\ reparsed' = parse_srt(output_file.data)
    /\ pc' = "reparsed"
    /\ UNCHANGED <<files, locals, exc, interrupted, prior_output,
                   output_opened, acc_before, api_key, counters,
                   interrupted_at, progress_opened>>

NextParse ==
    \/ ParseCall
    \/ SaveParsed
    \/ ReparseCall

SpecParse == InitParse /\ [][NextParse]_vars

\* ------------------------------------------------------------------------
\* Properties
\* ------------------------------------------------------------------------

\* the step is a failed attempt of translate_text
FailedAttempt == \E kind \in FailureKinds : ReceiveFailure(kind)

\* the step delivers the interrupt
InterruptStep == interrupted' /\ ~interrupted

\* index, start_time and end_time of a record
Meta(sub) == <<sub.index, sub.start_time, sub.end_time>>

\* t is part with its surrounding whitespace removed
IsTrimOf(t, part) ==
    /\ t = <<>> \/ (t[1] \notin Whitespace /\ t[Len(t)] \notin Whitespace)
    /\ \E a \in 0..Len(part) :
          /\ a + Len(t) <= Len(part)
          /\ SubSeq(part, a + 1, a + Len(t)) = t
          /\ \A k \in 1..a : part[k] \in Whitespace
          /\ \A k \in (a + Len(t) + 1)..Len(part) : part[k] \in Whitespace

\* C1: translate_text never raises on a failed attempt, whatever its kind,
\* and after the max_retries-th failed attempt it returns the text it was
\* given.
C1_FailureNeverRaises ==
    [][FailedAttempt =>
          /\ pc' \in {"retry_sleep", "split"}
          /\ exc' = exc
          /\ (attempt = max_retries - 1 =>
                 pc' = "split" /\ translated_text' = combined_text)]_vars

\* C2: when a run interrupted during batch k of N (k < N) has stopped, the
\* progress file holds exactly the records of the batches before k and the
\* output file has not been written.
C2_InterruptKeepsCompletedBatches ==
    (pc = "interrupted" /\ current_batch < total_batches) =>
        /\ progress_file = Written(SubSeq(translated_subtitles, 1, acc_before))
        /\ ~output_opened
        /\ output_file = prior_output

\* C3: when the run has completed, the progress file does not exist and the
\* output file holds exactly one record per parsed record, in input order.
C3_CompletionWritesEveryRecord ==
    pc = "completed" =>
        /\ ~progress_file.exists
        /\ output_file = Written(translated_subtitles)
        /\ Len(translated_subtitles) = total_subtitles
        /\ \A k \in 1..total_subtitles :
              Meta(translated_subtitles[k]) = Meta(subtitles[k])

\* C4: once the parts of a batch have all been taken and they are as many as
\* the batch has records, exactly that many records were appended, the j-th
\* with the index and times of the j-th record of the batch and the trimmed
\* j-th part as text.
C4_BatchMapsPositionally ==
    (pc = "save_open" /\ Len(translated_parts) = Len(batch)) =>
        /\ Len(translated_subtitles) = acc_before + Len(batch)
        /\ \A k \in 1..Len(batch) :
              LET new == translated_subtitles[acc_before + k]
              IN  /\ Meta(new) = Meta(batch[k])
                  /\ IsTrimOf(new.text, translated_parts[k])

C4_Witness ==
    /\ pc = "save_open"
    /\ Len(translated_parts) = Len(batch)
    /\ Len(batch) = batch_size
    /\ acc_before > 0
    /\ translated_parts[2] # translated_subtitles[acc_before + 2].text

\* C5: a run of translate_subtitles in which an interrupt was delivered ends
\* by returning, with no
\* exception propagated and the accumulated records in the progress file.
C5_InterruptIsControlledStop ==
    (interrupted /\ interrupted_at # "main" /\ pc \in Terminal) =>
        /\ pc = "interrupted"
        /\ exc = "none"
        /\ progress_file = Written(translated_subtitles)

C7_BackupBeforeOverwrite ==
    /\ (output_opened /\ prior_output.exists) =>
           backup_file = Present(prior_output.data)
    /\ ~prior_output.exists => ~backup_file.exists

C7_Witness ==
    /\ output_opened
    /\ prior_output.exists
    /\ output_file # prior_output
    /\ backup_file = Present(prior_output.data)

\* C8, as stated: when the parts of a batch are fewer than its records, the
\* loop over the parts ends with an out-of-range failure.
C8_FewerPartsRaise ==
    [][(pc = "assign" /\ Len(translated_parts) < Len(batch)
        /\ pc' # "assign" /\ ~InterruptStep) =>
          pc' = "exc_handler" /\ exc' = "IndexError"]_vars

\* C8, amended: the loop over the parts ends with an out-of-range failure
\* exactly when the parts are more than the records of the batch, and a run
\* in which it was raised never completes; with fewer parts the loop ends
\* normally.
C8_MorePartsRaise ==
    /\ [][(pc = "assign" /\ pc' # "assign" /\ ~InterruptStep) =>
             IF Len(translated_parts) > Len(batch)
             THEN pc' = "exc_handler" /\ exc' = "IndexError"
             ELSE pc' = "save_open" /\ exc' = exc]_vars
    /\ [](exc = "IndexError" => pc \in {"exc_handler", "exc_write", "raised"})

C8_Witness ==
    /\ pc = "raised"
    /\ exc = "IndexError"
    /\ Len(translated_parts) > Len(batch)
    /\ j = Len(batch)

\* C9: when the last attempt for a batch fails the run continues: the call
\* returns, the records of the batch are appended unchanged, the checkpoint
\* is written.
C9_ExhaustedRetriesPassThrough ==
    /\ [][(FailedAttempt /\ attempt = max_retries - 1) => pc' = "split"]_vars
    /\ []((pc \in {"assign", "save_open", "save_write"}
           /\ translated_text = combined_text) =>
             /\ Len(translated_parts) = Len(batch)
             /\ (pc # "assign" =>
                    SubSeq(translated_subtitles, acc_before + 1,
                           Len(translated_subtitles)) = batch))

\* the text has a blank line between two of its lines
HasBlankLine(text) ==
    \E p \in 1..(Len(text) - 1) : text[p] = NL /\ text[p + 1] = NL

\* the lines of the text before its first blank line
BeforeBlankLine(text) ==
    LET p == CHOOSE q \in 1..(Len(text) - 1) :
                 /\ text[q] = NL /\ text[q + 1] = NL
                 /\ \A r \in 1..(q - 1) : ~(text[r] = NL /\ text[r + 1] = NL)
    IN  SubSeq(text, 1, p - 1)

\* one or more text lines, none empty, no whitespace around the text
PlainText(text) ==
    /\ text # <<>>
    /\ text[1] \notin Whitespace
    /\ text[Len(text)] \notin Whitespace
    /\ ~HasBlankLine(text)

\* C10: parse_srt returns one record per well-formed block of the input, the
\* i-th with the index, times and text of the i-th block.
C10_ParseReturnsEveryBlock ==
    (pc = "parsed" /\ \A k \in 1..Len(source_blocks) :
                         PlainText(source_blocks[k].text)) =>
        subtitles = source_blocks

\* the record of the example of C11 and the text it is written as
HelloRecord ==
    [index |-> <<"1">>,
     start_time |->
         <<"0", "0", ":", "0", "0", ":", "0", "1", ",", "0", "0", "0">>,
     end_time |->
         <<"0", "0", ":", "0", "0", ":", "0", "2", ",", "0", "0", "0">>,
     text |-> <<"H", "e", "l", "l", "o">>]

HelloText ==
    <<"1", NL,
      "0", "0", ":", "0", "0", ":", "0", "1", ",", "0", "0", "0",
      " ", "-", "-", ">", " ",
      "0", "0", ":", "0", "0", ":", "0", "2", ",", "0", "0", "0", NL,
      "H", "e", "l", "l", "o", NL, NL>>

\* C11: parsing the text that save_progress writes for the parsed records
\* gives the same records again; the record of the example is written as the
\* text of the example and parses back to itself.
C11_RoundTrip ==
    /\ pc = "reparsed" => reparsed = subtitles
    /\ (pc \in {"saved", "reparsed"} /\ subtitles = <<HelloRecord>>) =>
           output_file.data = HelloText

C11_Witness ==
    /\ pc = "reparsed"
    /\ Len(subtitles) = 2
    /\ subtitles[1] = HelloRecord
    /\ subtitles[2].text = <<"a", NL, "b">>
    /\ reparsed = subtitles

\* C12, as stated: a block whose text has an embedded blank line is returned
\* with the blank line and the lines after it in its text, only trailing
\* whitespace removed.
C12_BlankLineKept ==
    pc = "parsed" =>
        \A k \in 1..Len(source_blocks) :
            HasBlankLine(source_blocks[k].text) =>
                /\ k <= Len(subtitles)
                /\ subtitles[k].text = RStrip(source_blocks[k].text)

\* C12, amended: a block whose text has an embedded blank line is returned
\* with the index and times of the block and, as text, the lines before the
\* first blank line with leading and trailing whitespace removed.
C12_BlankLineEndsText ==
    pc = "parsed" =>
        \A k \in 1..Len(source_blocks) :
            HasBlankLine(source_blocks[k].text) =>
                /\ k <= Len(subtitles)
                /\ Meta(subtitles[k]) = Meta(source_blocks[k])
                /\ IsTrimOf(subtitles[k].text,
                            BeforeBlankLine(source_blocks[k].text))
                /\ ~HasBlankLine(subtitles[k].text)

C12_Witness ==
    /\ pc = "parsed"
    /\ Len(source_blocks) = 2
    /\ source_blocks[2].text = <<"a", NL, NL, "b">>
    /\ Len(subtitles) = 2
    /\ subtitles[2].text = <<"a">>

\* no file of the run has been read, created, written or deleted and no
\* request was sent
Untouched ==
    /\ output_file = prior_output
    /\ ~output_opened
    /\ ~progress_opened
    /\ progress_file \in {Absent, StaleProgress}
    /\ backup_file = Absent
    /\ subtitles = <<>>
    /\ call_log = <<>>
    /\ total_requests = 0

\* C13: when neither --api-key nor CLAUDE_API_KEY supplies a key, main ends
\* with ValueError, and then no file has been read, created, written or
\* deleted and no request has been sent.
C13_NoKeyFailsBeforeAnything ==
    /\ (pc # "main" /\ ~KeySupplied(api_key) /\ ~interrupted) =>
           pc = "raised" /\ exc = "ValueError"
    /\ exc = "ValueError" => pc = "raised" /\ Untouched

C13_Witness ==
    /\ pc = "raised"
    /\ exc = "ValueError"
    /\ api_key = NoKey
    /\ output_file = PriorOutput
    /\ progress_file = StaleProgress
    /\ Untouched

\* the k-th of the contiguous slices of batch_size records, the last shorter
Slice(k) ==
    [first |-> (k - 1) * batch_size + 1,
     last |-> Min(k * batch_size, total_subtitles)]

\* C14: the calls of translate_text are given the records in contiguous
\* slices of batch_size, the k-th call the k-th slice; a completed run has
\* made ceil(N / batch_size) calls, which cover every record once; a call
\* starts only when every earlier call has returned and the checkpoint of
\* the batch before it is in the progress file.
C14_BatchesInOrder ==
    /\ [](/\ \A k \in 1..Len(call_log) : call_log[k] = Slice(k)
          /\ Len(call_log) <= total_batches
          /\ Len(call_log) - calls_returned \in {0, 1}
          /\ (pc = "completed" =>
                 /\ Len(call_log) = total_batches
                 /\ total_subtitles > 0 =>
                        call_log[Len(call_log)].last = total_subtitles))
    /\ [][call_log' # call_log =>
             /\ calls_returned = Len(call_log)
             /\ call_log # <<>> =>
                    /\ progress_file = Written(translated_subtitles)
                    /\ acc_before = Len(translated_subtitles)
                    /\ i = Len(call_log) * batch_size]_vars

C14_Witness ==
    /\ pc = "completed"
    /\ total_subtitles = 11
    /\ call_log = <<[first |-> 1, last |-> 5], [first |-> 6, last |-> 10],
                    [first |-> 11, last |-> 11]>>
    /\ calls_returned = 3

\* C15: when an iteration of the loop has ended, the progress file holds the
\* serialization of the whole accumulated sequence, the records of every
\* batch so far in order; the output file is written in the same format from
\* the same sequence.
C15_CheckpointIsWholeSequence ==
    /\ (pc = "loop_head" /\ i > 0) =>
           /\ progress_file = Present(Serialize(translated_subtitles))
           /\ Len(call_log) * batch_size = i
           /\ acc_before = Len(translated_subtitles)
    /\ pc = "cleanup" =>
           /\ output_file = Present(Serialize(translated_subtitles))
           /\ total_subtitles > 0 => output_file = progress_file

C15_Witness ==
    /\ pc = "loop_head"
    /\ i = 2 * batch_size
    /\ Len(translated_subtitles) = 2 * batch_size
    /\ progress_file = Present(Serialize(translated_subtitles))

\* positions inside a call of translate_text with a request or a retry delay
\* in flight
InFlight == {"in_flight", "retry_sleep"}

\* positions of the handler of lines 141-145 and its return
InterruptedStates == {"kbd_handler", "kbd_write", "interrupted"}

\* C16, as stated: an interrupt is never observed while a request or a retry
\* delay is in flight, and the interrupt handler is never entered with a
\* call of translate_text that has not returned.
C16_CallRunsToCompletion ==
    /\ interrupted => interrupted_at \notin InFlight
    /\ pc \in InterruptedStates => calls_returned = Len(call_log)

\* C16, amended: an interrupt delivered while a request or a retry delay is
\* in flight is observed at once; the call is abandoned, nothing else
\* changes, no record of the current batch is appended, and the handler
\* writes the records of the batches completed before to the progress file
\* and returns.
C16_InterruptAbandonsCall ==
    /\ [][(InterruptStep /\ pc \in InFlight) =>
             /\ pc' = "kbd_handler"
             /\ UNCHANGED <<files, locals, counters, exc>>]_vars
    /\ []((interrupted_at \in InFlight) =>
             /\ pc \in InterruptedStates
             /\ exc = "none"
             /\ calls_returned = Len(call_log) - 1
             /\ requests_sent = attempt + 1
             /\ Len(translated_subtitles) = acc_before
             /\ ~output_opened
             /\ (pc = "interrupted" =>
                    progress_file = Written(translated_subtitles)))

C16_Witness ==
    /\ pc = "interrupted"
    /\ interrupted_at = "in_flight"
    /\ acc_before = batch_size
    /\ requests_sent = 2
    /\ calls_returned = 1
    /\ Len(call_log) = 2
    /\ progress_file = Written(translated_subtitles)

\* every record of recs has the index and times of a record of subtitles,
\* at strictly increasing positions
KeepsMetaInOrder(recs) ==
    /\ \A k \in 1..Len(recs) :
          \E p \in 1..total_subtitles : Meta(recs[k]) = Meta(subtitles[p])
    /\ \A k \in 1..(Len(recs) - 1) :
          \E p \in 1..total_subtitles, q \in 1..total_subtitles :
              /\ p < q
              /\ Meta(recs[k]) = Meta(subtitles[p])
              /\ Meta(recs[k + 1]) = Meta(subtitles[q])

\* C17: the records of the accumulated sequence, of the progress file the
\* run wrote and of the output file the run wrote each carry the index and
\* times of one input record, at strictly increasing input positions,
\* whatever the number of parts of the answers.
C17_MetaPreservedInOrder ==
    /\ KeepsMetaInOrder(translated_subtitles)
    /\ progress_opened => KeepsMetaInOrder(parse_srt(progress_file.data))
    /\ output_opened => KeepsMetaInOrder(parse_srt(output_file.data))

C17_Witness ==
    /\ pc = "completed"
    /\ total_subtitles = 11
    /\ Len(translated_subtitles) = 9
    /\ Len(parse_srt(output_file.data)) = 9
    /\ Meta(translated_subtitles[9]) = Meta(subtitles[11])

\* C18: a call of translate_text sends at most max_retries requests; a
\* request is sent only when every request of the call before it failed; the
\* retry delay is taken only after a failed attempt that another attempt
\* follows, once per such attempt.
C18_RetryBound ==
    /\ [](/\ requests_sent <= max_retries
          /\ failures \in {requests_sent - 1, requests_sent} \cap Nat
          /\ delays \in {requests_sent - 1, requests_sent} \cap Nat
          /\ delays <= max_retries - 1
          /\ (pc = "retry_sleep" => failures < max_retries)
          /\ (pc \in {"split", "assign", "save_open", "save_write"} =>
                 /\ delays = requests_sent - 1
                 /\ \/ failures = requests_sent - 1
                    \/ /\ failures = max_retries
                       /\ translated_text = combined_text))
    /\ [][requests_sent' > requests_sent =>
             /\ failures = requests_sent
             /\ delays = requests_sent
             /\ requests_sent < max_retries]_vars
    /\ [][delays' > delays =>
             /\ failures = requests_sent
             /\ delays = requests_sent - 1
             /\ requests_sent < max_retries
             /\ pc' = "request"]_vars

C18_Witness ==
    /\ pc = "split"
    /\ requests_sent = max_retries
    /\ failures = max_retries
    /\ delays = max_retries - 1
    /\ translated_text = combined_text

\* C19: with more parts than records, IndexError is raised only after one
\* record for every record of the batch has been appended; the failure
\* handler then writes the records of the failing batch to the progress file
\* with those of the batches before it, and the output file is not written.
C19_SurplusPartsSavePartialBatch ==
    /\ [][(pc = "assign" /\ exc' = "IndexError") =>
             /\ Len(translated_parts) > Len(batch)
             /\ j = Len(batch)
             /\ Len(translated_subtitles) = acc_before + Len(batch)
             /\ UNCHANGED translated_subtitles]_vars
    /\ []((pc = "raised" /\ exc = "IndexError") =>
             /\ Len(translated_subtitles) = acc_before + Len(batch)
             /\ \A k \in 1..Len(batch) :
                   /\ Meta(translated_subtitles[acc_before + k])
                          = Meta(batch[k])
                   /\ translated_subtitles[acc_before + k].text
                          = Strip(translated_parts[k])
             /\ progress_file = Present(Serialize(translated_subtitles))
             /\ output_file = prior_output
             /\ ~output_opened)

C19_Witness ==
    /\ pc = "raised"
    /\ exc = "IndexError"
    /\ acc_before = batch_size
    /\ Len(batch) = batch_size
    /\ Len(translated_parts) = batch_size + 1
    /\ Len(parse_srt(progress_file.data)) = 2 * batch_size
    /\ output_file = prior_output

\* C20: every run ends, and stays, in one of the terminal outcomes, with at
\* most ceil(N / batch_size) calls of translate_text and at most max_retries
\* requests per batch; a run that has written the output file ends
\* completed.
C20_RunTerminatesWithinBounds ==
    /\ <>(pc \in Terminal)
    /\ [][(pc \in Terminal) => UNCHANGED vars]_vars
    /\ [](/\ Len(call_log) <= total_batches
          /\ total_requests <= max_retries * total_batches)
    /\ []((pc \in Terminal /\ output_opened) => pc = "completed")

====
